---- MODULE Spec2Model ----
(***************************************************************************)
(* Gutenberg Galaxy (src/assets/script.js): the catalog loader, the word   *)
(* index, the planet selection, the pointer handlers and the timeline       *)
(* filter, as one state machine.                                            *)
(*                                                                          *)
(* Representation.  A JavaScript value that may be null/undefined is an     *)
(* option: <<>> for null, <<v>> for the value v.  A string is the sequence  *)
(* of its characters.  A book is referenced by its id; Book(id) is the      *)
(* record the catalog returned for it.  A missing field of a book is a      *)
(* field that is not in the DOMAIN of its record.                           *)
(***************************************************************************)
EXTENDS Integers, Sequences, FiniteSets, TLC

VARIABLES
  remote,        \* the remote catalog: the pages it serves, in cursor order
  pc,            \* Position of loadData: "start", "await", "ready", "failed"
  allBooks,      \* loadData: books fetched so far (ids)
  nextPage,      \* loadData: cursor of the next page, NoPage when null
  pageCount,     \* loadData: pages fetched so far
  requested,     \* history: the pages fetch() was called for, in call order
  fetchFailed,   \* history: a fetch()/json() promise was rejected
  loadError,     \* history: loadData's catch block logged an error
  wordsData,     \* the word index, in Map insertion order
  wordGroup,     \* group of word meshes; defined = FALSE until createWordCloud
  timelineData,  \* [startYear, endYear]
  scene,         \* the children of the scene named 'planetGroup', in order
  tooltip,       \* the detail overlay: display and the book it was filled with
  selectedWord,  \* history: the word of the last click that hit a word, 0 if none
  previousWord,  \* history: the word of the click that hit a word before that
  lastOp,        \* history: the handler that ran last
  lastArg,       \* history: the input of that handler
  uncaught       \* history: that handler ended in an uncaught exception

vars == <<remote, pc, allBooks, nextPage, pageCount, requested, fetchFailed,
          loadError, wordsData, wordGroup, timelineData, scene, tooltip,
          selectedWord, previousWord, lastOp, lastArg, uncaught>>

(***************************************************************************)
(* Program constants                                                        *)
(***************************************************************************)
MaxPages == 3

MinYear == 1800

MaxYear == 2023

DefaultYear == 1900

\* The null cursor (data.next === null); pages are numbered from 1.
NoPage == 0

(***************************************************************************)
(* Bounds of the model                                                      *)
(***************************************************************************)
\* The remote catalog has between 1 and MaxRemotePages pages.
MaxRemotePages == 4

\* The values the two year controls are set to.
YearInputs == {1800, 1850, 1900, 1950, 2000, 2023}

(***************************************************************************)
(* The catalog's books.  Years are calendar years (negative for BCE), so    *)
(* no author has the year 0.                                                *)
(***************************************************************************)
Author(birth, death) == [birth_year |-> birth, death_year |-> death]

Books == <<
  \* 1: "Art, War"; died 1850
  [authors  |-> <<Author(<<1800>>, <<1850>>)>>,
   subjects |-> << <<"A","r","t",","," ","W","a","r">> >>],
  \* 2: "Art -- War" and "art."; died 1900: 'art' through two subjects
  [authors  |-> <<Author(<<1850>>, <<1900>>)>>,
   subjects |-> << <<"A","r","t"," ","-","-"," ","W","a","r">>,
                   <<"a","r","t",".">> >>],
  \* 3: "War"; born 1950, no death year
  [authors  |-> <<Author(<<1950>>, <<>>)>>,
   subjects |-> << <<"W","a","r">> >>],
  \* 4: "art"; no authors
  [authors  |-> <<>>,
   subjects |-> << <<"a","r","t">> >>],
  \* 5: empty subjects list; an author without years
  [authors  |-> <<Author(<<>>, <<>>)>>,
   subjects |-> <<>>],
  \* 6: no subjects field at all
  [authors  |-> <<Author(<<1900>>, <<1950>>)>>],
  \* 7: "War  art" (two spaces); first author without years, second 1800-1850
  [authors  |-> <<Author(<<>>, <<>>), Author(<<1800>>, <<1850>>)>>,
   subjects |-> << <<"W","a","r"," "," ","a","r","t">> >>],
  \* 8: "ART"; an author of antiquity
  [authors  |-> <<Author(<<-800>>, <<-750>>)>>,
   subjects |-> << <<"A","R","T">> >>]
>>

Book(id) == Books[id]

\* The pages a catalog is made of (each a data.results list of book ids).
PagePool == { <<1, 2>>, <<3, 4>>, <<5>>, <<6>>, <<7, 8>> }

RECURSIVE SeqsOver(_, _)
SeqsOver(S, n) ==
  IF n = 0 THEN { <<>> }
  ELSE LET shorter == SeqsOver(S, n - 1)
       IN  shorter \cup { Append(s, x) : s \in { t \in shorter : Len(t) = n - 1 }, x \in S }

Catalogs == { c \in SeqsOver(PagePool, MaxRemotePages) : Len(c) >= 1 }

\* The catalogs the interactive specification starts from.
SessionCatalogs == { << <<1, 2>>, <<3, 4>> >>,
                     << <<1, 2>>, <<7, 8>>, <<5>>, <<3, 4>> >>,
                     << <<1, 2>>, <<6>> >> }

(***************************************************************************)
(* The remote: the response to a request for page p                         *)
(***************************************************************************)
Response(cat, p) ==
  [results |-> cat[p], next |-> IF p < Len(cat) THEN p + 1 ELSE NoPage]

(***************************************************************************)
(* Strings                                                                  *)
(***************************************************************************)
UpperCase == <<"A","B","C","D","E","F","G","H","I","J","K","L","M",
               "N","O","P","Q","R","S","T","U","V","W","X","Y","Z">>

LowerCase == <<"a","b","c","d","e","f","g","h","i","j","k","l","m",
               "n","o","p","q","r","s","t","u","v","w","x","y","z">>

IsUpper(c) == \E i \in 1..26 : UpperCase[i] = c

IsLower(c) == \E i \in 1..26 : LowerCase[i] = c

\* /[^a-zA-Z]/ does not match c
IsAlpha(c) == IsUpper(c) \/ IsLower(c)

ToLowerChar(c) ==
  IF IsUpper(c) THEN LowerCase[CHOOSE i \in 1..26 : UpperCase[i] = c] ELSE c

\* subject.split(' '): the pieces between single spaces, empty pieces kept
RECURSIVE SplitFrom(_, _, _, _)
SplitFrom(s, i, cur, acc) ==
  IF i > Len(s) THEN Append(acc, cur)
  ELSE IF s[i] = " " THEN SplitFrom(s, i + 1, <<>>, Append(acc, cur))
  ELSE SplitFrom(s, i + 1, Append(cur, s[i]), acc)

Split(s) == SplitFrom(s, 1, <<>>, <<>>)

\* word.replace(/[^a-zA-Z]/g, '').toLowerCase()
NormalizeWord(word) ==
  LET kept == SelectSeq(word, IsAlpha)
  IN  [i \in 1..Len(kept) |-> ToLowerChar(kept[i])]

(***************************************************************************)
(* loadData: the indexing pass                                              *)
(***************************************************************************)
HasWord(map, word) == \E i \in 1..Len(map) : map[i].text = word

\* AddWord keeping one reference per book, the book list as a set
AddWord_Dedup(map, word, book) ==
  LET m1 == IF HasWord(map, word) THEN map
            ELSE Append(map, [text |-> word, count |-> 0, books |-> <<>>])
      i  == CHOOSE j \in 1..Len(m1) : m1[j].text = word
  IN  [m1 EXCEPT ![i].count = @ + 1,
                 ![i].books = IF \E k \in 1..Len(@) : @[k] = book
                              THEN @ ELSE Append(@, book)]

\* the body of words.forEach for a non-empty normalized word
AddWord(map, word, book) ==
  LET m1 == IF HasWord(map, word) THEN map
            ELSE Append(map, [text |-> word, count |-> 0, books |-> <<>>])
      i  == CHOOSE j \in 1..Len(m1) : m1[j].text = word
  IN  [m1 EXCEPT ![i].count = @ + 1, ![i].books = Append(@, book)]

RECURSIVE IndexWords(_, _, _, _)
IndexWords(map, words, k, book) ==
  IF k > Len(words) THEN map
  ELSE LET word == NormalizeWord(words[k])
       IN  IndexWords(IF word # <<>> THEN AddWord(map, word, book) ELSE map,
                      words, k + 1, book)

RECURSIVE IndexSubjects(_, _, _, _)
IndexSubjects(map, subjects, k, book) ==
  IF k > Len(subjects) THEN map
  ELSE IndexSubjects(IndexWords(map, Split(subjects[k]), 1, book),
                     subjects, k + 1, book)

\* allBooks.forEach: subjects.forEach throws a TypeError when book.subjects
\* is undefined, which ends the pass
RECURSIVE IndexBooks(_, _, _)
IndexBooks(map, books, k) ==
  IF k > Len(books) THEN [threw |-> FALSE, map |-> map]
  ELSE IF "subjects" \notin DOMAIN Book(books[k])
       THEN [threw |-> TRUE, map |-> map]
       ELSE IndexBooks(IndexSubjects(map, Book(books[k]).subjects, 1, books[k]),
                       books, k + 1)

\* Array.from(wordMap.entries()).map(...)
WordsDataOf(map) ==
  [i \in 1..Len(map) |->
     [text |-> map[i].text, frequency |-> map[i].count, books |-> map[i].books]]

\* createWordCloud: one mesh per entry of wordsData, every mesh visible
CreateWordCloud(wd) ==
  [defined  |-> TRUE,
   children |-> [i \in 1..Len(wd) |-> [userData |-> [wordData |-> i], visible |-> TRUE]]]

\* LoopCondition with the page limit off by one
LoopCondition_OffByOne(np, cnt) == np # NoPage /\ cnt <= MaxPages

\* while (nextPage && pageCount < 3)
LoopCondition(np, cnt) == np # NoPage /\ cnt < MaxPages

(***************************************************************************)
(* loadData: the steps between its awaits                                   *)
(***************************************************************************)
NoArg == [ctrl |-> "none", value |-> 0, hit |-> 0]

\* The font has loaded and loadData runs up to its first await.
LoadData ==
  /\ pc = "start"
  /\ LoopCondition(nextPage, pageCount)
  /\ requested' = Append(requested, nextPage)
  /\ pc' = "await"
  /\ lastOp' = "loadData"
  /\ lastArg' = NoArg
  /\ uncaught' = FALSE
  /\ UNCHANGED <<remote, allBooks, nextPage, pageCount, fetchFailed, loadError,
                 wordsData, wordGroup, timelineData, scene, tooltip,
                 selectedWord, previousWord>>

\* A page arrives and the loop goes round: the next page is requested.
FetchResolvedContinue ==
  /\ pc = "await"
  /\ LET data == Response(remote, nextPage)
     IN  /\ LoopCondition(data.next, pageCount + 1)
         /\ allBooks' = allBooks \o data.results
         /\ nextPage' = data.next
         /\ pageCount' = pageCount + 1
         /\ requested' = Append(requested, data.next)
  /\ pc' = "await"
  /\ lastOp' = "loadData"
  /\ lastArg' = NoArg
  /\ uncaught' = FALSE
  /\ UNCHANGED <<remote, fetchFailed, loadError, wordsData, wordGroup,
                 timelineData, scene, tooltip, selectedWord, previousWord>>

\* The last page arrives: the loop ends and the rest of loadData runs.
FetchResolvedLast ==
  /\ pc = "await"
  /\ LET data  == Response(remote, nextPage)
         books == allBooks \o data.results
         pass  == IndexBooks(<<>>, books, 1)
     IN  /\ ~LoopCondition(data.next, pageCount + 1)
         /\ allBooks' = books
         /\ nextPage' = data.next
         /\ pageCount' = pageCount + 1
         /\ IF pass.threw
            THEN /\ pc' = "failed"
                 /\ loadError' = TRUE
                 /\ UNCHANGED <<wordsData, wordGroup>>
            ELSE /\ pc' = "ready"
                 /\ wordsData' = WordsDataOf(pass.map)
                 /\ wordGroup' = CreateWordCloud(WordsDataOf(pass.map))
                 /\ UNCHANGED loadError
  /\ lastOp' = "loadData"
  /\ lastArg' = NoArg
  /\ uncaught' = FALSE
  /\ UNCHANGED <<remote, requested, fetchFailed, timelineData, scene, tooltip,
                 selectedWord, previousWord>>

\* fetch() or response.json() rejects: the catch block logs and loadData ends.
FetchRejected ==
  /\ pc = "await"
  /\ pc' = "failed"
  /\ fetchFailed' = TRUE
  /\ loadError' = TRUE
  /\ lastOp' = "loadData"
  /\ lastArg' = NoArg
  /\ uncaught' = FALSE
  /\ UNCHANGED <<remote, allBooks, nextPage, pageCount, requested, wordsData,
                 wordGroup, timelineData, scene, tooltip, selectedWord,
                 previousWord>>

(***************************************************************************)
(* Effective year and the two year filters                                  *)
(***************************************************************************)
\* JavaScript truthiness of an optional number: null and 0 are falsy
Truthy(x) == x # <<>> /\ x[1] # 0

\* a || b
Or(a, b) == IF Truthy(a) THEN a ELSE b

\* book.authors[0]
FirstAuthor(book) == IF Len(book.authors) >= 1 THEN <<book.authors[1]>> ELSE <<>>

\* showPlanetaryPanel: const year = deathYear || birthYear || 1900
PanelYear(book) ==
  LET author    == FirstAuthor(book)
      deathYear == IF author # <<>> THEN author[1].death_year ELSE <<>>
      birthYear == IF author # <<>> THEN author[1].birth_year ELSE <<>>
  IN  Or(Or(deathYear, birthYear), <<DefaultYear>>)[1]

\* PanelKeeps with the end of the range excluded
PanelKeeps_Exclusive(id, tl) ==
  PanelYear(Book(id)) >= tl.startYear /\ PanelYear(Book(id)) < tl.endYear

\* showPlanetaryPanel: the predicate of wordData.books.filter
PanelKeeps(id, tl) ==
  PanelYear(Book(id)) >= tl.startYear /\ PanelYear(Book(id)) <= tl.endYear

\* TimelineYear preferring the birth year
TimelineYear_BirthFirst(book) ==
  LET author    == FirstAuthor(book)
      deathYear == IF author # <<>> THEN author[1].death_year ELSE <<>>
      birthYear == IF author # <<>> THEN author[1].birth_year ELSE <<>>
  IN  Or(Or(birthYear, deathYear), <<DefaultYear>>)[1]

\* updateTimeline: const year = deathYear || birthYear || 1900
TimelineYear(book) ==
  LET author    == FirstAuthor(book)
      deathYear == IF author # <<>> THEN author[1].death_year ELSE <<>>
      birthYear == IF author # <<>> THEN author[1].birth_year ELSE <<>>
  IN  Or(Or(deathYear, birthYear), <<DefaultYear>>)[1]

\* updateTimeline: the predicate of books.filter
TimelineKeeps(id, tl) ==
  TimelineYear(Book(id)) >= tl.startYear /\ TimelineYear(Book(id)) <= tl.endYear

(***************************************************************************)
(* The planet selection                                                     *)
(***************************************************************************)
\* createPlanetMesh: mesh.userData = { book }
CreatePlanetMesh(id) == [userData |-> [book |-> id]]

\* scene.getObjectByName('planetGroup'): the first such child, if any
GetPlanetGroup(sc) == IF sc # <<>> THEN <<sc[1]>> ELSE <<>>

\* RemovePlanetGroup leaving the previous group in the scene
RemovePlanetGroup_Keep(sc) == sc

\* scene.remove(existingPlanets)
RemovePlanetGroup(sc) == IF sc # <<>> THEN Tail(sc) ELSE sc

\* showPlanetaryPanel(wordData, position) on the scene sc under the range tl.
\* wordData is <<>> when the caller passes undefined, and then wordData.books
\* throws after the previous group has been removed.  The field forWord of a
\* group is history: the word the group was built for.
ShowPlanetaryPanel(sc, wordData, tl) ==
  IF wordData = <<>>
  THEN [scene |-> RemovePlanetGroup(sc), threw |-> TRUE]
  ELSE LET books == SelectSeq(wordsData[wordData[1]].books,
                              LAMBDA id : PanelKeeps(id, tl))
           planetGroup ==
             [name     |-> "planetGroup",
              children |-> [k \in 1..Len(books) |-> CreatePlanetMesh(books[k])],
              forWord  |-> wordData[1]]
       IN  [scene |-> Append(RemovePlanetGroup(sc), planetGroup), threw |-> FALSE]

(***************************************************************************)
(* Pointer handlers                                                         *)
(***************************************************************************)
\* onClick; hit is the word mesh whose interaction sphere the ray meets
\* first, 0 when it meets none.  Before createWordCloud wordGroup is
\* undefined and intersectObjects(undefined) throws.
OnClick(hit) ==
  /\ lastOp' = "onClick"
  /\ lastArg' = [NoArg EXCEPT !.hit = hit]
  /\ IF ~wordGroup.defined
     THEN /\ uncaught' = TRUE
          /\ UNCHANGED <<scene, selectedWord, previousWord>>
     ELSE IF hit = 0
     THEN /\ uncaught' = FALSE
          /\ UNCHANGED <<scene, selectedWord, previousWord>>
     ELSE LET mesh  == wordGroup.children[hit]
              panel == ShowPlanetaryPanel(scene, <<mesh.userData.wordData>>,
                                          timelineData)
          IN  /\ scene' = panel.scene
              /\ uncaught' = panel.threw
              /\ selectedWord' = mesh.userData.wordData
              /\ previousWord' = selectedWord
  /\ UNCHANGED <<remote, pc, allBooks, nextPage, pageCount, requested,
                 fetchFailed, loadError, wordsData, wordGroup, timelineData,
                 tooltip>>

\* the word meshes a click can hit
ClickTargets == IF wordGroup.defined THEN 0..Len(wordGroup.children) ELSE {0}

\* the planets a pointer ray can hit: those of the group found by name
HoverTargets ==
  IF scene # <<>> THEN 0..Len(scene[1].children) ELSE {0}

\* onMouseMove; hit is the planet of the group the ray meets first, 0 when
\* it meets none
OnMouseMove(hit) ==
  /\ lastOp' = "onMouseMove"
  /\ lastArg' = [NoArg EXCEPT !.hit = hit]
  /\ uncaught' = FALSE
  /\ LET planetGroup == GetPlanetGroup(scene)
     IN  IF planetGroup = <<>>
         THEN UNCHANGED tooltip
         ELSE IF hit > 0
         THEN LET mesh == planetGroup[1].children[hit]
              IN  IF "book" \in DOMAIN mesh.userData
                  THEN tooltip' = [display |-> "block", book |-> mesh.userData.book]
                  ELSE tooltip' = [tooltip EXCEPT !.display = "none"]
         ELSE tooltip' = [tooltip EXCEPT !.display = "none"]
  /\ UNCHANGED <<remote, pc, allBooks, nextPage, pageCount, requested,
                 fetchFailed, loadError, wordsData, wordGroup, timelineData,
                 scene, selectedWord, previousWord>>

(***************************************************************************)
(* The timeline                                                             *)
(***************************************************************************)
\* SwapIfInverted without the swap
SwapIfInverted_NoSwap(tl) == tl

\* updateTimeline: the swap
SwapIfInverted(tl) ==
  IF tl.startYear > tl.endYear
  THEN [startYear |-> tl.endYear, endYear |-> tl.startYear]
  ELSE tl

\* updateTimeline: mesh.visible = relevantBooks.length > 0
WordVisible(mesh, tl) ==
  SelectSeq(wordsData[mesh.userData.wordData].books,
            LAMBDA id : TimelineKeeps(id, tl)) # <<>>

\* updateTimeline: the refresh of the open panel.  children[0] of the planet
\* group is a planet mesh, whose userData holds no wordData.
RefreshPanel(sc, tl) ==
  LET planetGroup == GetPlanetGroup(sc)
  IN  IF planetGroup = <<>> THEN [scene |-> sc, threw |-> FALSE]
      ELSE IF planetGroup[1].children = <<>>
      THEN [scene |-> sc, threw |-> TRUE]
      ELSE LET wordMesh == planetGroup[1].children[1]
               wordData == IF "wordData" \in DOMAIN wordMesh.userData
                           THEN <<wordMesh.userData.wordData>> ELSE <<>>
           IN  ShowPlanetaryPanel(sc, wordData, tl)

\* A year control is moved to v: the control stores v in timelineData and
\* calls updateTimeline.
SetYear(ctrl, v) ==
  /\ pc = "ready"
  /\ timelineData[ctrl] # v
  /\ LET tl    == SwapIfInverted([timelineData EXCEPT ![ctrl] = v])
         panel == RefreshPanel(scene, tl)
     IN  /\ timelineData' = tl
         /\ wordGroup' =
              [wordGroup EXCEPT !.children =
                 [i \in 1..Len(wordGroup.children) |->
                    [wordGroup.children[i] EXCEPT
                       !.visible = WordVisible(wordGroup.children[i], tl)]]]
         /\ scene' = panel.scene
         /\ uncaught' = panel.threw
  /\ lastOp' = "updateTimeline"
  /\ lastArg' = [NoArg EXCEPT !.ctrl = ctrl, !.value = v]
  /\ UNCHANGED <<remote, pc, allBooks, nextPage, pageCount, requested,
                 fetchFailed, loadError, wordsData, tooltip, selectedWord,
                 previousWord>>

SetStartYear(v) == SetYear("startYear", v)

SetEndYear(v) == SetYear("endYear", v)

(***************************************************************************)
(* Specifications                                                           *)
(***************************************************************************)
\* The state when the script has been evaluated and the font is loading.  The
\* overlay element comes from the page, which shows it only on a hover.
InitWith(catalogs) ==
  /\ remote \in catalogs
  /\ pc = "start"
  /\ allBooks = <<>>
  /\ nextPage = 1
  /\ pageCount = 0
  /\ requested = <<>>
  /\ fetchFailed = FALSE
  /\ loadError = FALSE
  /\ wordsData = <<>>
  /\ wordGroup = [defined |-> FALSE, children |-> <<>>]
  /\ timelineData = [startYear |-> MinYear, endYear |-> MaxYear]
  /\ scene = <<>>
  /\ tooltip = [display |-> "none", book |-> 0]
  /\ selectedWord = 0
  /\ previousWord = 0
  /\ lastOp = "none"
  /\ lastArg = NoArg
  /\ uncaught = FALSE

Init == InitWith(SessionCatalogs)

Next ==
  \/ LoadData
  \/ FetchResolvedContinue
  \/ FetchResolvedLast
  \/ FetchRejected
  \/ \E hit \in ClickTargets : OnClick(hit)
  \/ \E hit \in HoverTargets : OnMouseMove(hit)
  \/ \E v \in YearInputs : SetStartYear(v)
  \/ \E v \in YearInputs : SetEndYear(v)

Spec == Init /\ [][Next]_vars

\* loadData alone, over every catalog of the bound
InitLoad == InitWith(Catalogs)

NextLoad ==
  \/ LoadData
  \/ FetchResolvedContinue
  \/ FetchResolvedLast
  \/ FetchRejected

SpecLoad == InitLoad /\ [][NextLoad]_vars

(***************************************************************************)
(* Definitions the properties are stated with                               *)
(***************************************************************************)
\* Effective year as the data model states it, on the first author of the
\* book: the death year if there is one, else the birth year if there is
\* one, else 1900.
StatedYear(book) ==
  IF book.authors = <<>> THEN 1900
  ELSE IF book.authors[1].death_year # <<>> THEN book.authors[1].death_year[1]
  ELSE IF book.authors[1].birth_year # <<>> THEN book.authors[1].birth_year[1]
  ELSE 1900

\* The entries of a book list whose effective year lies in [lo, hi], in order.
RECURSIVE StatedSelection(_, _, _)
StatedSelection(books, lo, hi) ==
  IF books = <<>> THEN <<>>
  ELSE LET y    == StatedYear(Book(Head(books)))
           rest == StatedSelection(Tail(books), lo, hi)
       IN  IF lo <= y /\ y <= hi THEN <<Head(books)>> \o rest ELSE rest

\* The books of the planets of a group, in order.
PlanetBooks(group) ==
  [k \in 1..Len(group.children) |-> group.children[k].userData.book]

\* The books of a list that have a subjects list.
WithSubjects(books) ==
  SelectSeq(books, LAMBDA id : "subjects" \in DOMAIN Book(id))

\* The occurrences (book, subject, piece) of a book list, in encounter
\* order, each as <<book, normalized piece>>.
RECURSIVE SubjectOccurrences(_, _, _)
SubjectOccurrences(id, subjects, k) ==
  IF k > Len(subjects) THEN <<>>
  ELSE LET pieces == Split(subjects[k])
       IN  [j \in 1..Len(pieces) |-> <<id, NormalizeWord(pieces[j])>>]
           \o SubjectOccurrences(id, subjects, k + 1)

RECURSIVE Occurrences(_)
Occurrences(books) ==
  IF books = <<>> THEN <<>>
  ELSE SubjectOccurrences(Head(books), Book(Head(books)).subjects, 1)
       \o Occurrences(Tail(books))

\* The books of the occurrences that normalize to word, in encounter order.
OccurrencesOf(books, word) ==
  LET hits == SelectSeq(Occurrences(books), LAMBDA o : o[2] = word)
  IN  [k \in 1..Len(hits) |-> hits[k][1]]

Min(a, b) == IF a <= b THEN a ELSE b

LoadEnded == pc \in {"ready", "failed"}

(***************************************************************************)
(* Properties                                                               *)
(***************************************************************************)

\* C1: when updateTimeline runs while a planet group for a word W is in the
\* scene, then afterwards a group for W is in the scene and its planets are
\* exactly W's books that showPlanetaryPanel's filter keeps under the new
\* range.
C1_SelectionRefreshed ==
  [][(lastOp' = "updateTimeline" /\ scene # <<>>) =>
       /\ Len(scene') = 1
       /\ scene'[1].forWord = scene[1].forWord
       /\ PlanetBooks(scene'[1]) =
            SelectSeq(wordsData[scene[1].forWord].books,
                      LAMBDA id : PanelKeeps(id, timelineData'))]_vars

\* C2: after every updateTimeline both years are in [1800, 2023] and
\* startYear <= endYear, and a change that would leave startYear > endYear
\* ends with the two values swapped: the moved control's value and the other
\* control's value are both kept, in ascending order.
C2_RangeOrdered ==
  [][/\ timelineData'.startYear <= timelineData'.endYear
     /\ timelineData'.startYear \in 1800..2023
     /\ timelineData'.endYear \in 1800..2023
     /\ (lastOp' = "updateTimeline" /\ lastArg'.ctrl = "startYear") =>
          timelineData' =
            IF lastArg'.value > timelineData.endYear
            THEN [startYear |-> timelineData.endYear, endYear |-> lastArg'.value]
            ELSE [startYear |-> lastArg'.value, endYear |-> timelineData.endYear]
     /\ (lastOp' = "updateTimeline" /\ lastArg'.ctrl = "endYear") =>
          timelineData' =
            IF timelineData.startYear > lastArg'.value
            THEN [startYear |-> lastArg'.value, endYear |-> timelineData.startYear]
            ELSE [startYear |-> timelineData.startYear, endYear |-> lastArg'.value]
    ]_vars

\* C2 witness: with end = 1900 the start control was set to 2000, and the
\* range is now start = 1900, end = 2000.
C2_SwapWitness ==
  /\ lastOp = "updateTimeline"
  /\ lastArg.ctrl = "startYear"
  /\ lastArg.value = 2000
  /\ timelineData = [startYear |-> 1900, endYear |-> 2000]

\* C3: the scene holds at most one planet group, and every planet in the
\* scene belongs to the selection opened by the most recent click on a word.
C3_OneSelection ==
  /\ Len(scene) <= 1
  /\ \A g \in 1..Len(scene) :
       /\ selectedWord # 0
       /\ scene[g].forWord = selectedWord
       /\ \A k \in 1..Len(scene[g].children) :
            \E j \in 1..Len(wordsData[selectedWord].books) :
              wordsData[selectedWord].books[j] = scene[g].children[k].userData.book

\* C3 witness: word B was clicked after another word A, and B's planets are
\* in the scene.
C3_ReplacedWitness ==
  /\ lastOp = "onClick"
  /\ previousWord # 0
  /\ previousWord # selectedWord
  /\ Len(scene) = 1
  /\ scene[1].children # <<>>

\* C4: a click on a word W leaves exactly one planet group, with one planet
\* for each entry of W's book list whose effective year lies in
\* [startYear, endYear], both ends included, in book-list order; the group is
\* created, and nothing is thrown, also when no book passes.
C4_PanelSelection ==
  (lastOp = "onClick" /\ lastArg.hit > 0) =>
     /\ ~uncaught
     /\ Len(scene) = 1
     /\ scene[1].forWord = lastArg.hit
     /\ PlanetBooks(scene[1]) =
          StatedSelection(wordsData[lastArg.hit].books,
                          timelineData.startYear, timelineData.endYear)

\* C4 witness: a word with books of the effective years 1850, 1900, 1950 was
\* clicked under the range [1900, 1950] and has the latter two as planets.
C4_ExampleWitness ==
  /\ lastOp = "onClick"
  /\ lastArg.hit > 0
  /\ timelineData = [startYear |-> 1900, endYear |-> 1950]
  /\ wordsData[lastArg.hit].books = <<1, 2, 3>>
  /\ PlanetBooks(scene[1]) = <<2, 3>>

\* C5: after every updateTimeline run, also one that ends in an exception,
\* a word is visible iff one of its books has an effective year in
\* [startYear, endYear].
C5_Visibility ==
  lastOp = "updateTimeline" =>
    \A i \in 1..Len(wordGroup.children) :
      wordGroup.children[i].visible <=>
        StatedSelection(wordsData[wordGroup.children[i].userData.wordData].books,
                        timelineData.startYear, timelineData.endYear) # <<>>

\* C5 witness: an updateTimeline run that threw, after which one word is
\* hidden and another is visible.
C5_ThrowWitness ==
  /\ lastOp = "updateTimeline"
  /\ uncaught
  /\ \E i, j \in 1..Len(wordGroup.children) :
       wordGroup.children[i].visible /\ ~wordGroup.children[j].visible

\* C6: the pages are requested in cursor order 1, 2, ..., never more than 3
\* of them, and when no request fails the loop ends after exactly
\* min(3, k) requests, k the number of pages of the remote.
C6_FetchBound ==
  /\ Len(requested) <= 3
  /\ \A i \in 1..Len(requested) : requested[i] = i
  /\ (LoadEnded /\ ~fetchFailed) => Len(requested) = Min(3, Len(remote))

\* C6 witness: the remote has 2 pages and loadData ended after 2 requests.
C6_TwoPagesWitness ==
  /\ Len(remote) = 2
  /\ pc = "ready"
  /\ requested = <<1, 2>>

\* C7: when every fetch succeeded, loadData builds the word cloud, and the
\* word index is the index of the fetched books without those whose subjects
\* list is missing or empty.
C7_NoSubjectsIgnored ==
  (LoadEnded /\ ~fetchFailed) =>
     /\ pc = "ready"
     /\ ~loadError
     /\ wordGroup.defined
     /\ wordsData =
          WordsDataOf(IndexBooks(<<>>,
             SelectSeq(WithSubjects(allBooks),
                       LAMBDA id : Book(id).subjects # <<>>), 1).map)

\* C8: when a page fetch fails after earlier pages were fetched, the failure
\* is logged and the word index and the word cloud are built from the books
\* of the pages fetched before.
C8_PartialDataUsed ==
  (fetchFailed /\ pageCount >= 1 /\ WithSubjects(allBooks) = allBooks) =>
     /\ loadError
     /\ wordGroup.defined
     /\ wordsData = WordsDataOf(IndexBooks(<<>>, allBooks, 1).map)

\* C9: in the index built by loadData the words are unique, every word that
\* occurs is a key, and for every entry the book list is the contributing
\* book of each occurrence of the word, in encounter order and with
\* repetitions, and frequency is the number of those occurrences, hence the
\* length of the book list and at least 1.
C9_IndexCounts ==
  pc = "ready" =>
    /\ \A i, j \in 1..Len(wordsData) :
         wordsData[i].text = wordsData[j].text => i = j
    /\ \A k \in 1..Len(Occurrences(allBooks)) :
         Occurrences(allBooks)[k][2] # <<>> =>
           \E i \in 1..Len(wordsData) :
             wordsData[i].text = Occurrences(allBooks)[k][2]
    /\ \A i \in 1..Len(wordsData) :
         /\ wordsData[i].text # <<>>
         /\ wordsData[i].books = OccurrencesOf(allBooks, wordsData[i].text)
         /\ wordsData[i].frequency = Len(OccurrencesOf(allBooks, wordsData[i].text))
         /\ wordsData[i].frequency = Len(wordsData[i].books)
         /\ wordsData[i].frequency >= 1

\* C9 witness: an entry whose book list holds the same book twice.
C9_DuplicateWitness ==
  /\ pc = "ready"
  /\ \E i \in 1..Len(wordsData) :
       \E a, b \in 1..Len(wordsData[i].books) :
         a # b /\ wordsData[i].books[a] = wordsData[i].books[b]

\* C10: after every onMouseMove the overlay shows book b when the ray's
\* nearest hit is b's planet in the open group, and is hidden when no planet
\* is hit.
C10_OverlayFollowsPointer ==
  [][lastOp' = "onMouseMove" =>
       IF lastArg'.hit > 0
       THEN tooltip' = [display |-> "block",
                        book |-> scene[1].children[lastArg'.hit].userData.book]
       ELSE tooltip'.display = "none"]_vars

====
